---- MODULE Spec2Model ----
(***************************************************************************)
(* Client-side i18n of the documentation site: the locale path utility     *)
(* (src/i18n/config.ts), the translation lookup t(), the click             *)
(* interceptor of I18nProvider, the two scripts that fill the target       *)
(* catalog from the default one (scripts/auto-translate.mjs and            *)
(* scripts/auto-translate-local.mjs), the effects that load the trees,     *)
(* LocalizedLink, the useLocalizedNavigation hook and the not-found page.  *)
(*                                                                         *)
(* Strings are sequences of tokens.  A token is a piece of text; "/" is    *)
(* the only token that holds a slash and no token is a prefix of another,  *)
(* so a token sequence stands for exactly one string and split('/'),       *)
(* startsWith and the anchored regular expressions of the source act on    *)
(* token boundaries.  <<"/", "ja", "react">> is the string "/jareact": a   *)
(* first segment that starts with a locale code without being one.         *)
(***************************************************************************)
EXTENDS Integers, Sequences, FiniteSets, TLC

VARIABLES
    pathname,   \* path utility: the path handed to the first call
    target,     \* path utility: the locale argument of addLocaleToPathname
    applied,    \* path utility: the calls made so far, in order
    value,      \* path utility: the path returned by the last call
    found,      \* path utility: the locale returned by getLocaleFromPathname
    messages,           \* I18nProvider state: the active locale's tree
    fallbackMessages,   \* I18nProvider state: the default locale's tree
    asked,              \* the key of the last t(key) call, NoCall before any
    answer,             \* the string the last t(key) call returned
    locale,         \* I18nProvider state: the active locale
    isNavigating,   \* I18nProvider state: an interceptor navigation is in flight
    asPath,         \* router.asPath
    pushes,         \* the router.push calls that have not settled, oldest first
    click,          \* the last click, settlement or setLocale call and what it did
    script,             \* sync tool: "api" (auto-translate.mjs) or "local"
    model,              \* sync tool: the --model argument of the api script
    apiKey,             \* sync tool: GEMINI_API_KEY is set
    translator,         \* sync tool: the local model is loaded
    enTranslations,     \* sync tool: the default tree, as read
    jaTranslations,     \* sync tool: the target tree in memory
    jaFile,             \* the target file: a tree, or NoFile
    pc,                 \* sync tool: where the run is
    missingKeys,        \* sync tool: the keys found missing
    idx,                \* sync tool: the loop's position in missingKeys
    inFlight,           \* sync tool: positions whose backend call has not returned
    translatedCount,    \* sync tool: the summary's translated count
    errorCount,         \* sync tool: the summary's error count
    trail,              \* sync tool: what the run did, in order
    exitCode,           \* sync tool: Running, or the process's exit code
    run,                \* which run of the tool this is
    fetches,            \* provider: the catalog requests in flight
    lastLoad,           \* provider: what last set the active tree
    link,               \* LocalizedLink: the last render
    hook,               \* useLocalizedNavigation: the last click handled
    notFound            \* the not-found page and its handler

pathVars == <<pathname, target, applied, value, found>>

lookupVars == <<messages, fallbackMessages, asked, answer>>

navVars == <<locale, isNavigating, asPath, pushes, click>>

syncVars == <<script, model, apiKey, translator, enTranslations, jaTranslations, jaFile,
              pc, missingKeys, idx, inFlight, translatedCount, errorCount, trail,
              exitCode, run>>

pageVars == <<fetches, lastLoad, link, hook, notFound>>

vars == <<pathname, target, applied, value, found,
          messages, fallbackMessages, asked, answer,
          locale, isNavigating, asPath, pushes, click,
          script, model, apiKey, translator, enTranslations, jaTranslations, jaFile,
          pc, missingKeys, idx, inFlight, translatedCount, errorCount, trail,
          exitCode, run, fetches, lastLoad, link, hook, notFound>>

----------------------------------------------------------------------------
(* Bounds *)

MaxPathLen == 5     \* tokens in an input path
MaxCalls == 2       \* path utility calls composed on one input
MaxKeyLen == 3      \* tokens in a translation key
MaxHrefLen == 4     \* tokens in a clicked link's href
MaxPending == 2     \* router.push calls in flight at once
MaxFetches == 4     \* catalog requests in flight at once

----------------------------------------------------------------------------
(* src/i18n/config.ts *)

locales == <<"en", "ja">>

defaultLocale == "en"

Locale == {locales[i] : i \in 1..Len(locales)}

PathTokens == {"/", "en", "ja", "react"}

RECURSIVE SeqsUpTo(_, _)
SeqsUpTo(S, n) ==
    IF n = 0 THEN {<<>>}
    ELSE LET shorter == SeqsUpTo(S, n - 1)
         IN  shorter \cup {Append(s, x) : s \in {t \in shorter : Len(t) = n - 1}, x \in S}

Paths == SeqsUpTo(PathTokens, MaxPathLen)

\* pathname.replace(/\/$/, '')
StripTrailingSlash(s) ==
    IF Len(s) > 0 /\ s[Len(s)] = "/" THEN SubSeq(s, 1, Len(s) - 1) ELSE s

\* s.split('/').filter(Boolean)[0]; <<>> stands for undefined
RECURSIVE FirstSegment(_)
FirstSegment(s) ==
    IF s = <<>> THEN <<>>
    ELSE IF Head(s) = "/" THEN FirstSegment(Tail(s))
    ELSE LET stops == {i \in 1..Len(s) : s[i] = "/"}
             last == IF stops = {} THEN Len(s)
                     ELSE (CHOOSE i \in stops : \A j \in stops : i <= j) - 1
         IN  SubSeq(s, 1, last)

\* locales.includes(firstSegment)
IsLocaleSegment(seg) == Len(seg) = 1 /\ seg[1] \in Locale

\* A prefix test in place of the exact match on the first segment.
getLocaleByPrefix(p) ==
    LET firstSegment == FirstSegment(StripTrailingSlash(p))
    IN  IF firstSegment # <<>> /\ firstSegment[1] \in Locale
        THEN firstSegment[1]
        ELSE defaultLocale

getLocaleFromPathname(p) ==
    LET cleanPath == StripTrailingSlash(p)
        firstSegment == FirstSegment(cleanPath)
    IN  IF firstSegment # <<>> /\ IsLocaleSegment(firstSegment)
        THEN firstSegment[1]
        ELSE defaultLocale

\* cleanPath.replace(new RegExp(`^/${locale}(/|$)`), '/')
ReplaceLocalePrefix(s, loc) ==
    IF Len(s) >= 2 /\ s[1] = "/" /\ s[2] = loc /\ (Len(s) = 2 \/ s[3] = "/")
    THEN <<"/">> \o SubSeq(s, IF Len(s) = 2 THEN 3 ELSE 4, Len(s))
    ELSE s

\* The prefix replaced by '' instead of '/'.
stripLocaleDroppingSlash(p) ==
    LET cleanPath == StripTrailingSlash(p)
        loc == getLocaleFromPathname(cleanPath)
        cut == Tail(ReplaceLocalePrefix(cleanPath, loc))
    IN  IF loc = defaultLocale THEN p
        ELSE IF cut = <<>> THEN <<"/">> ELSE cut

stripLocaleFromPathname(p) ==
    LET cleanPath == StripTrailingSlash(p)
        loc == getLocaleFromPathname(cleanPath)
        withoutLocale == ReplaceLocalePrefix(cleanPath, loc)
    IN  IF loc = defaultLocale THEN p
        ELSE IF withoutLocale = <<>> THEN <<"/">> ELSE withoutLocale

\* `/${locale}${cleanPath}` with no special case for the root.
addLocaleKeepingRoot(p, loc) ==
    LET cleanPath == stripLocaleFromPathname(p)
    IN  IF loc = defaultLocale THEN cleanPath
        ELSE <<"/", loc>> \o cleanPath

addLocaleToPathname(p, loc) ==
    LET cleanPath == stripLocaleFromPathname(p)
        normalizedPath == IF cleanPath # <<>> /\ cleanPath[1] = "/"
                          THEN cleanPath
                          ELSE <<"/">> \o cleanPath
    IN  IF loc = defaultLocale THEN cleanPath
        ELSE <<"/", loc>> \o (IF normalizedPath = <<"/">> THEN <<>> ELSE normalizedPath)

----------------------------------------------------------------------------
(* src/contexts/I18nContext.tsx: the translation trees and t() *)

\* JSON values.  A string's text is a token sequence, <<>> the empty string.
\* An array stands for any object without the properties a key can name:
\* the key alphabet has no index and no "length".
Undefined == [type |-> "undefined"]

Str(text) == [type |-> "string", text |-> text]

Arr == [type |-> "array"]

Obj(fields) == [type |-> "object", fields |-> fields]

PropNames == {"home", "title"}

KeyTokens == PropNames \cup {"."}

Keys == SeqsUpTo(KeyTokens, MaxKeyLen)

\* The objects whose properties, drawn from PropNames, hold values of V.
ObjectsOver(V) ==
    UNION {{Obj(f) : f \in [names -> V]} : names \in SUBSET PropNames}

\* The trees a catalog file can hold: a root object with string or array
\* leaves and one level of nested objects.
TreesWith(texts) ==
    LET leaves == {Str(x) : x \in texts} \cup {Arr}
    IN  ObjectsOver(leaves \cup ObjectsOver({Str(x) : x \in texts}))

LocaleTrees == TreesWith({<<"Konnichiwa">>, <<>>})

DefaultTrees == TreesWith({<<"Hello">>})

\* key.split('.'): the token runs between the dots, empty runs included
RECURSIVE SplitOnDot(_)
SplitOnDot(key) ==
    LET dots == {i \in 1..Len(key) : key[i] = "."}
    IN  IF dots = {} THEN <<key>>
        ELSE LET d == CHOOSE i \in dots : \A j \in dots : i <= j
             IN  <<SubSeq(key, 1, d - 1)>> \o SplitOnDot(SubSeq(key, d + 1, Len(key)))

\* value && typeof value === 'object'
IsObjectLike(v) == v.type \in {"object", "array"}

\* value[k]
Prop(v, k) ==
    IF v.type = "object" /\ Len(k) = 1 /\ k[1] \in DOMAIN v.fields
    THEN v.fields[k[1]]
    ELSE Undefined

\* The first loop of t: a step off a value that is no object gives undefined.
RECURSIVE Walk(_, _)
Walk(v, keys) ==
    IF keys = <<>> THEN v
    ELSE IF IsObjectLike(v) THEN Walk(Prop(v, Head(keys)), Tail(keys))
    ELSE Undefined

\* t without the fallback tree (the provider before the fallback was added).
tActiveOnly(key, active, fallback) ==
    LET v == Walk(active, SplitOnDot(key))
    IN  IF v.type = "string" THEN v.text ELSE key

t(key, active, fallback) ==
    LET keys == SplitOnDot(key)
        v == Walk(active, keys)
        \* the second loop returns key where the first one breaks
        w == Walk(fallback, keys)
    IN  IF v.type = "string" THEN v.text
        ELSE IF w.type = "string" THEN w.text
        ELSE key

----------------------------------------------------------------------------
(* I18nProvider with the click interceptor: handleClick, setLocale *)

HrefTokens == PathTokens \cup {"#", "http://", "https://", "mailto:", "tel:"}

Hrefs == SeqsUpTo(HrefTokens, MaxHrefLen)

\* The paths a session can be entered on.
EntryPaths == {<<"/">>, <<"/", "react">>, <<"/", "ja">>, <<"/", "ja", "/", "react">>}

\* What a click lands on: no anchor, an anchor without href, an anchor with
\* the href h (getAttribute gives '' for an empty one).
NoAnchor == [anchor |-> FALSE, href |-> <<>>]

BareAnchor == [anchor |-> TRUE, href |-> <<>>]

Anchor(h) == [anchor |-> TRUE, href |-> h]

ClickTargets == {NoAnchor} \cup {Anchor(h) : h \in Hrefs}

\* The links of the pages browsed in a session: internal ones with and
\* without a locale prefix, a relative one, and one of each skipped kind.
PageLinks ==
    {<<"/", "react">>, <<"/", "ja", "/", "react">>, <<"/", "en">>, <<"react">>,
     <<"http://", "react">>, <<"https://", "react">>, <<"/", "/", "react">>,
     <<"#", "react">>, <<"mailto:", "react">>, <<"tel:", "react">>}

PageTargets == {NoAnchor, BareAnchor} \cup {Anchor(h) : h \in PageLinks}

\* The startsWith tests on href
SkippedHref(h) ==
    \/ Len(h) >= 1 /\ h[1] \in {"http://", "https://", "#", "mailto:", "tel:"}
    \/ Len(h) >= 2 /\ h[1] = "/" /\ h[2] = "/"

NoClick == [kind |-> "none"]

NoRender == [kind |-> "none"]

NoPage == [shown |-> FALSE]

Push(url, by) == [url |-> url, by |-> by]

\* The effect that registers handleClick depends on locale and isNavigating,
\* so the registered listener reads the committed state.
\* Whether handleClick calls preventDefault on a click on target tg.
Prevents(tg) ==
    \/ isNavigating
    \/ /\ tg.anchor
       /\ tg.href # <<>>
       /\ ~SkippedHref(tg.href)
       /\ locale # defaultLocale
       /\ getLocaleFromPathname(tg.href) # locale

\* The rewrite pushed without the active locale's prefix.
LocalizedHrefUnprefixed(tg) == stripLocaleFromPathname(tg.href)

LocalizedHref(tg) ==
    LET pathWithoutLocale == stripLocaleFromPathname(tg.href)
    IN  addLocaleToPathname(pathWithoutLocale, locale)

\* The rewrite branch with no test of the guard.
RewritesUnguarded(tg) ==
    /\ tg.anchor
    /\ tg.href # <<>>
    /\ ~SkippedHref(tg.href)
    /\ locale # defaultLocale
    /\ getLocaleFromPathname(tg.href) # locale

\* Whether handleClick reaches its router.push.
Rewrites(tg) == ~isNavigating /\ Prevents(tg)

handleClick(tg) ==
    /\ Rewrites(tg) => Len(pushes) < MaxPending
    /\ click' = [kind |-> "click", target |-> tg,
                 localeWas |-> locale, navigatingWas |-> isNavigating,
                 prevented |-> Prevents(tg),
                 issued |-> IF Rewrites(tg) THEN <<LocalizedHref(tg)>> ELSE <<>>]
    /\ isNavigating' = (isNavigating \/ Rewrites(tg))
    /\ pushes' = IF Rewrites(tg)
                 THEN Append(pushes, Push(LocalizedHref(tg), "click"))
                 ELSE pushes
    /\ UNCHANGED <<locale, asPath>>

setLocale(newLocale) ==
    LET pathWithoutLocale == stripLocaleFromPathname(asPath)
        newPath == IF newLocale = defaultLocale
                   THEN pathWithoutLocale
                   ELSE addLocaleToPathname(pathWithoutLocale, newLocale)
    IN  /\ Len(pushes) < MaxPending
        /\ locale' = newLocale
        /\ pushes' = Append(pushes, Push(newPath, "setLocale"))
        /\ click' = NoClick
        /\ UNCHANGED <<isNavigating, asPath>>

RemoveAt(q, i) == SubSeq(q, 1, i - 1) \o SubSeq(q, i + 1, Len(q))

\* router.push(localizedHref).then(() => setIsNavigating(false)): the guard
\* is cleared by a navigation that succeeded only.
guardAfterThen(ok) == IF ok THEN FALSE ELSE isNavigating

\* router.push(localizedHref).finally(() => setIsNavigating(false))
guardAfterFinally(ok) == FALSE

\* What settle leaves in click: which push settled, and how.
Settled(by, ok) == [kind |-> "settled", by |-> by, ok |-> ok]

\* The i-th pending push settles.  A push that succeeded has changed
\* router.asPath, and the effect on router.asPath then reads the locale from
\* it; the finally callback of an interceptor push clears the guard.
settle(i, ok) ==
    LET p == pushes[i]
    IN  /\ pushes' = RemoveAt(pushes, i)
        /\ asPath' = IF ok THEN p.url ELSE asPath
        /\ locale' = IF ok /\ p.url # asPath
                     THEN getLocaleFromPathname(p.url)
                     ELSE locale
        /\ isNavigating' = IF p.by = "click" THEN guardAfterFinally(ok) ELSE isNavigating
        /\ click' = Settled(p.by, ok)

----------------------------------------------------------------------------
(* src/contexts/I18nContext.tsx: the effects that load the trees *)

\* The catalog file served for a locale.
Catalog(loc) ==
    IF loc = defaultLocale
    THEN Obj([n \in {"home", "title"} |-> Str(<<"Hello">>)])
    ELSE Obj([n \in {"home"} |-> Str(<<"Konnichiwa">>)])

\* A request for the catalog of loc whose answer goes to the fallback tree
\* or to the active tree.
Fetch(loc, into) == [locale |-> loc, into |-> into]

\* What last set the active tree, and the tree it replaced.
Load(event, replaced) == [event |-> event, replaced |-> replaced]

NoLoad == Load("none", Obj(<<>>))

\* A catch that only reports, as the one of the fallback request does.
messagesKept(current) == current

\* The catch of the locale request: setMessages({})
messagesAfterFailure(current) == Obj(<<>>)

\* The load effect run for the active locale loc: the default catalog is
\* always requested; the locale's catalog is requested unless loc is the
\* default locale, for which the active tree is emptied at once.
loadTranslations(loc) ==
    /\ Len(fetches) + (IF loc = defaultLocale THEN 1 ELSE 2) <= MaxFetches
    /\ fetches' = fetches \o <<Fetch(defaultLocale, "fallback")>>
                          \o (IF loc = defaultLocale THEN <<>>
                              ELSE <<Fetch(loc, "messages")>>)
    /\ messages' = IF loc = defaultLocale THEN Obj(<<>>) ELSE messages
    /\ lastLoad' = IF loc = defaultLocale THEN Load("cleared", messages)
                   ELSE lastLoad

\* router.asPath changes: the locale is read from it, and a changed locale
\* runs the load effect.
routeChanged(p) ==
    LET pathLocale == getLocaleFromPathname(p)
    IN  /\ asPath' = p
        /\ locale' = pathLocale
        /\ IF pathLocale # locale THEN loadTranslations(pathLocale)
           ELSE UNCHANGED <<fetches, messages, lastLoad>>
        /\ UNCHANGED fallbackMessages

\* The i-th request in flight is answered, with the catalog or with a
\* failure.  Nothing ties the answer to the locale active when it arrives.
fetchSettled(i, ok) ==
    LET f == fetches[i]
    IN  /\ fetches' = RemoveAt(fetches, i)
        /\ IF f.into = "fallback"
           THEN /\ fallbackMessages' = IF ok THEN Catalog(f.locale)
                                       ELSE fallbackMessages
                /\ UNCHANGED <<messages, lastLoad>>
           ELSE /\ messages' = IF ok THEN Catalog(f.locale)
                               ELSE messagesAfterFailure(messages)
                /\ lastLoad' = Load(IF ok THEN "loaded" ELSE "failed", messages)
                /\ UNCHANGED fallbackMessages
        /\ UNCHANGED <<locale, asPath>>

----------------------------------------------------------------------------
(* scripts/auto-translate.mjs and scripts/auto-translate-local.mjs *)

\* JSON values of the catalog files.  An object keeps its entries in
\* insertion order; an array keeps its items and, apart from them, the named
\* properties assigned to it.
Num == [type |-> "number"]

Dict(entries) == [type |-> "object", entries |-> entries]

List(items) == [type |-> "array", items |-> items, props |-> <<>>]

Entry(k, v) == [k |-> k, v |-> v]

NoFile == [type |-> "no file"]

\* The process: still running, or exited with code 0 or 1.
Running == "running"

Success == "exit 0"

Failure == "exit 1"

\* Object.entries(obj): an array's index entries come before its properties.
Entries(node) ==
    IF node.type = "object" THEN node.entries
    ELSE IF node.type = "array"
    THEN [i \in 1..Len(node.items) |->
             Entry(IF i = 1 THEN "0" ELSE "1", node.items[i])] \o node.props
    ELSE <<>>

\* The first character of a catalog text, as a string.
CharAt0(text) ==
    IF text = <<"Hello">> THEN <<"H">>
    ELSE IF text = <<"Konnichiwa">> THEN <<"K">>
    ELSE <<"H">>

\* curr[key] on a value that is neither null nor undefined
Member(node, name) ==
    LET hits == {i \in 1..Len(Entries(node)) : <<Entries(node)[i].k>> = name}
    IN  IF node.type \in {"object", "array"}
        THEN IF hits = {} THEN Undefined ELSE Entries(node)[CHOOSE i \in hits : TRUE].v
        ELSE IF node.type = "string" /\ name = <<"0">> /\ node.text # <<>>
        THEN Str(CharAt0(node.text))
        ELSE Undefined

\* curr?.[key]
OptionalMember(node, name) ==
    IF node.type = "undefined" THEN Undefined ELSE Member(node, name)

\* !value
Falsy(v) == v.type = "undefined" \/ v = Str(<<>>)

RECURSIVE Reduce(_, _)
Reduce(node, keys) ==
    IF keys = <<>> THEN node
    ELSE Reduce(OptionalMember(node, Head(keys)), Tail(keys))

\* keyPath.split('.').reduce((curr, key) => curr?.[key], obj)
getValue(obj, keyPath) == Reduce(obj, SplitOnDot(keyPath))

\* `${prefix}.${key}`, or key when prefix is ''
FullKey(prefix, name) ==
    IF prefix = <<>> THEN <<name>> ELSE prefix \o <<".", name>>

RECURSIVE FlattenApi(_, _)
\* getKeys of auto-translate.mjs: every value of type object is descended
\* into, arrays included, and every other value is kept.
FlattenApi(entries, prefix) ==
    IF entries = <<>> THEN <<>>
    ELSE LET e == Head(entries)
             fullKey == FullKey(prefix, e.k)
         IN  (IF e.v.type \in {"object", "array"}
              THEN FlattenApi(Entries(e.v), fullKey)
              ELSE <<fullKey>>)
             \o FlattenApi(Tail(entries), prefix)

RECURSIVE FlattenLocal(_, _)
\* getKeys of auto-translate-local.mjs: arrays are not descended into and
\* only strings are kept.
FlattenLocal(entries, prefix) ==
    IF entries = <<>> THEN <<>>
    ELSE LET e == Head(entries)
             fullKey == FullKey(prefix, e.k)
         IN  (IF e.v.type = "object" THEN FlattenLocal(Entries(e.v), fullKey)
              ELSE IF e.v.type = "string" THEN <<fullKey>>
              ELSE <<>>)
             \o FlattenLocal(Tail(entries), prefix)

getKeys(sc, obj) ==
    IF sc = "api" THEN FlattenApi(Entries(obj), <<>>)
    ELSE FlattenLocal(Entries(obj), <<>>)

\* node[name] = v on an object or an array
Assign(node, name, v) ==
    LET at == {i \in 1..Len(node.entries) : <<node.entries[i].k>> = name}
        pos == {i \in 1..Len(node.props) : <<node.props[i].k>> = name}
    IN  IF node.type = "object"
        THEN IF at = {} THEN Dict(Append(node.entries, Entry(name[1], v)))
             ELSE Dict([i \in 1..Len(node.entries) |->
                          IF i \in at THEN Entry(name[1], v) ELSE node.entries[i]])
        ELSE IF name = <<"0">>
        THEN [node EXCEPT !.items = IF node.items = <<>> THEN <<v>>
                                    ELSE [node.items EXCEPT ![1] = v]]
        ELSE IF pos = {} THEN [node EXCEPT !.props = Append(node.props, Entry(name[1], v))]
        ELSE [node EXCEPT !.props = [i \in 1..Len(node.props) |->
                          IF i \in pos THEN Entry(name[1], v) ELSE node.props[i]]]

\* Both files are modules, so an assignment to a property of a string or a
\* number throws a TypeError.
Assignable(node) == node.type \in {"object", "array"}

\* setValue on the subtree node: the subtree afterwards, and whether the
\* call threw.  What was assigned before a throw stays assigned.
RECURSIVE SetIn(_, _, _)
SetIn(node, keys, v) ==
    IF ~Assignable(node) THEN [node |-> node, threw |-> TRUE]
    ELSE IF Len(keys) = 1 THEN [node |-> Assign(node, keys[1], v), threw |-> FALSE]
    ELSE LET child == Member(node, keys[1])
             made == IF Falsy(child) THEN Dict(<<>>) ELSE child
             below == SetIn(made, Tail(keys), v)
         IN  [node |-> Assign(node, keys[1], below.node), threw |-> below.threw]

\* setValue(obj, keyPath, value)
setValue(obj, keyPath, v) == SetIn(obj, SplitOnDot(keyPath), v)

\* JSON.parse(JSON.stringify(tree)): an array's named properties are not
\* written.
RECURSIVE Stringified(_)
Stringified(node) ==
    IF node.type = "object"
    THEN Dict([i \in 1..Len(node.entries) |->
                 Entry(node.entries[i].k, Stringified(node.entries[i].v))])
    ELSE IF node.type = "array"
    THEN List([i \in 1..Len(node.items) |-> Stringified(node.items[i])])
    ELSE node

----------------------------------------------------------------------------
(* The path utility applied to bounded inputs *)

NoCall == <<"no call">>

PathIdle ==
    /\ pathname = <<>>
    /\ target = defaultLocale
    /\ applied = <<>>
    /\ value = <<>>
    /\ found = defaultLocale

\* useState({}) for both trees
LookupIdle ==
    /\ messages = Obj(<<>>)
    /\ fallbackMessages = Obj(<<>>)
    /\ asked = NoCall
    /\ answer = <<>>

NavIdle ==
    /\ locale = defaultLocale
    /\ isNavigating = FALSE
    /\ asPath = <<"/">>
    /\ pushes = <<>>
    /\ click = NoClick

\* No catalog request, no link rendered, no click handled by the hook, no
\* not-found page shown.
PageIdle ==
    /\ fetches = <<>>
    /\ lastLoad = NoLoad
    /\ link = NoRender
    /\ hook = NoClick
    /\ notFound = NoPage

\* Neither script has been started.
SyncIdle ==
    /\ script = "api"
    /\ model = "gemini-flash"
    /\ apiKey = FALSE
    /\ translator = FALSE
    /\ enTranslations = Dict(<<>>)
    /\ jaTranslations = Dict(<<>>)
    /\ jaFile = NoFile
    /\ pc = "start"
    /\ missingKeys = <<>>
    /\ idx = 1
    /\ inFlight = {}
    /\ translatedCount = 0
    /\ errorCount = 0
    /\ trail = <<>>
    /\ exitCode = Running
    /\ run = 1

PathInit ==
    /\ pathname \in Paths
    /\ target \in Locale
    /\ applied = <<>>
    /\ value = pathname
    /\ found = defaultLocale
    /\ LookupIdle
    /\ NavIdle
    /\ SyncIdle
    /\ PageIdle

CallGetLocale ==
    /\ Len(applied) < MaxCalls
    /\ found' = getLocaleFromPathname(value)
    /\ applied' = Append(applied, "getLocale")
    /\ UNCHANGED <<pathname, target, value>>
    /\ UNCHANGED <<lookupVars, navVars, syncVars, pageVars>>

CallStripLocale ==
    /\ Len(applied) < MaxCalls
    /\ value' = stripLocaleFromPathname(value)
    /\ applied' = Append(applied, "strip")
    /\ UNCHANGED <<pathname, target, found>>
    /\ UNCHANGED <<lookupVars, navVars, syncVars, pageVars>>

CallAddLocale ==
    /\ Len(applied) < MaxCalls
    /\ value' = addLocaleToPathname(value, target)
    /\ applied' = Append(applied, "add")
    /\ UNCHANGED <<pathname, target, found>>
    /\ UNCHANGED <<lookupVars, navVars, syncVars, pageVars>>

PathNext == CallGetLocale \/ CallStripLocale \/ CallAddLocale

SpecPath == PathInit /\ [][PathNext]_vars

----------------------------------------------------------------------------
(* t() applied to loaded trees *)

\* t is a function of the key and the two trees held in state: the trees are
\* drawn from the loadable ones and t is applied once.
LookupInit ==
    /\ PathIdle
    /\ NavIdle
    /\ SyncIdle
    /\ PageIdle
    /\ messages \in LocaleTrees
    /\ fallbackMessages \in DefaultTrees
    /\ asked = NoCall
    /\ answer = <<>>

Translate ==
    /\ asked = NoCall
    /\ \E key \in Keys :
          /\ asked' = key
          /\ answer' = t(key, messages, fallbackMessages)
    /\ UNCHANGED <<messages, fallbackMessages>>
    /\ UNCHANGED <<pathVars, navVars, syncVars, pageVars>>

LookupNext == Translate

SpecLookup == LookupInit /\ [][LookupNext]_vars

----------------------------------------------------------------------------
(* The provider in a browsing session *)

\* The provider is mounted on an entry path; the effect on router.asPath has
\* read the active locale from it.
NavInit ==
    /\ PathIdle
    /\ LookupIdle
    /\ SyncIdle
    /\ PageIdle
    /\ asPath \in EntryPaths
    /\ locale = getLocaleFromPathname(asPath)
    /\ isNavigating = FALSE
    /\ pushes = <<>>
    /\ click = NoClick

Click ==
    /\ \E tg \in PageTargets : handleClick(tg)
    /\ UNCHANGED <<pathVars, lookupVars, syncVars, pageVars>>

SwitchLocale ==
    /\ \E newLocale \in Locale : setLocale(newLocale)
    /\ UNCHANGED <<pathVars, lookupVars, syncVars, pageVars>>

Settle ==
    /\ \E i \in 1..Len(pushes), ok \in BOOLEAN : settle(i, ok)
    /\ UNCHANGED <<pathVars, lookupVars, syncVars, pageVars>>

NavNext == Click \/ SwitchLocale \/ Settle

SpecNav == NavInit /\ [][NavNext]_vars

----------------------------------------------------------------------------
(* handleClick applied once to any href *)

\* handleClick reads the active locale and the guard, both of which take
\* either value in a session; a set guard has its push in flight.
ClickInit ==
    /\ PathIdle
    /\ LookupIdle
    /\ SyncIdle
    /\ PageIdle
    /\ locale \in Locale
    /\ isNavigating \in BOOLEAN
    /\ asPath = addLocaleToPathname(<<"/">>, locale)
    /\ pushes = IF isNavigating
                THEN <<Push(<<"/", "ja", "/", "react">>, "click")>>
                ELSE <<>>
    /\ click = NoClick

ClickLink ==
    /\ click = NoClick
    /\ \E tg \in ClickTargets : handleClick(tg)
    /\ UNCHANGED <<pathVars, lookupVars, syncVars, pageVars>>

ClickNext == ClickLink

SpecClick == ClickInit /\ [][ClickNext]_vars

----------------------------------------------------------------------------
(* One run of a sync script over bounded catalogs *)

Hello == Str(<<"Hello">>)

Konnichiwa == Str(<<"Konnichiwa">>)

\* what the backend answers for a text
Honyaku == Str(<<"Honyaku">>)

\* The values under a top-level key of the default catalog: a string, a
\* number, an array of strings, and sections of one and two strings.
DefaultValues ==
    {Hello, Num, List(<<Hello>>), Dict(<<Entry("b", Hello)>>),
     Dict(<<Entry("b", Hello), Entry("c", Hello)>>)}

DefaultCatalogs ==
    {Dict(<<>>)}
    \cup {Dict(<<Entry("a", v)>>) : v \in DefaultValues}
    \cup {Dict(<<Entry("a", v), Entry("b", w)>>) : v, w \in DefaultValues}
    \cup {Dict(<<Entry("b", v), Entry("a", w)>>) : v, w \in DefaultValues}

\* The values under a top-level key of the target catalog: a translation, an
\* empty string, an array and a section.
TargetValues ==
    {Konnichiwa, Str(<<>>), List(<<Konnichiwa>>), Dict(<<Entry("b", Konnichiwa)>>)}

TargetCatalogs ==
    {Dict(<<>>)}
    \cup {Dict(<<Entry("a", v)>>) : v \in TargetValues}
    \cup {Dict(<<Entry("b", v)>>) : v \in TargetValues}
    \cup {Dict(<<Entry("a", v), Entry("b", w)>>) : v, w \in TargetValues}

Event(ev, key) == [ev |-> ev, key |-> key]

\* A script is started on a default catalog and a target file, which may not
\* exist.  The transformers module and both files are taken to load.
SyncInit ==
    /\ script \in {"api", "local"}
    /\ model \in {"gemini-flash", "opus-mt"}
    /\ apiKey \in BOOLEAN
    /\ script = "local" => model = "opus-mt" /\ ~apiKey
    /\ model = "opus-mt" => ~apiKey
    /\ translator = FALSE
    /\ enTranslations \in DefaultCatalogs
    /\ jaFile \in TargetCatalogs \cup {NoFile}
    /\ jaTranslations = Dict(<<>>)
    /\ pc = "start"
    /\ missingKeys = <<>>
    /\ idx = 1
    /\ inFlight = {}
    /\ translatedCount = 0
    /\ errorCount = 0
    /\ trail = <<>>
    /\ exitCode = Running
    /\ run = 1
    /\ PathIdle
    /\ LookupIdle
    /\ NavIdle
    /\ PageIdle

\* enKeys.filter((key) => getValue(jaTranslations, key) === undefined)
MissingIn(sc, en, ja) ==
    LET IsMissing(key) == getValue(ja, key).type = "undefined"
    IN  SelectSeq(getKeys(sc, en), IsMissing)

\* The files are read and the missing keys computed; with none missing the
\* script returns at once.
Start ==
    /\ pc = "start"
    /\ LET ja == IF jaFile = NoFile THEN Dict(<<>>) ELSE jaFile
           missing == MissingIn(script, enTranslations, ja)
       IN  /\ jaTranslations' = ja
           /\ missingKeys' = missing
           /\ IF missing = <<>>
              THEN /\ pc' = "done"
                   /\ exitCode' = Success
                   /\ trail' = Append(trail, Event("all translated", <<>>))
              ELSE /\ pc' = "loop"
                   /\ exitCode' = exitCode
                   /\ trail' = trail
    /\ UNCHANGED <<script, model, apiKey, translator, enTranslations, jaFile, idx,
                   inFlight, translatedCount, errorCount, run>>
    /\ UNCHANGED <<pathVars, lookupVars, navVars, pageVars>>

currentKey == missingKeys[idx]

enText == getValue(enTranslations, currentKey)

AtKey == pc = "loop" /\ idx <= Len(missingKeys)

\* if (typeof enText !== 'string') continue
SkipKey ==
    /\ AtKey
    /\ enText.type # "string"
    /\ idx' = idx + 1
    /\ UNCHANGED <<script, model, apiKey, translator, enTranslations, jaTranslations,
                   jaFile, pc, missingKeys, inFlight, translatedCount, errorCount,
                   trail, exitCode, run>>
    /\ UNCHANGED <<pathVars, lookupVars, navVars, pageVars>>

\* The api script can reach its backend: the model is gemini-flash and the
\* credential is set.
Reachable == model = "gemini-flash" /\ apiKey

\* A loop that starts its calls without waiting for them.
Unawaited == FALSE

\* The loop waits for a call to return before it goes on.
Awaited == TRUE

\* The backend is called for the key at the loop's position.
Issue ==
    /\ trail' = trail \o <<Event("translate", currentKey), Event("call", currentKey)>>
    /\ inFlight' = inFlight \cup {idx}
    /\ pc' = IF Awaited THEN "await" ELSE pc
    /\ idx' = IF Awaited THEN idx ELSE idx + 1

\* catch of the loop on the tree as the try block left it, entered after a
\* call or, with no call in flight, from the top of the try: the api script
\* counts the error, the local script also stores the English text, and a
\* throw of that setValue rejects translateMissingKeys.
Catch(ja, i) ==
    LET failed == missingKeys[i]
        before == IF i \in inFlight THEN trail
                  ELSE Append(trail, Event("translate", failed))
        placed == setValue(ja, failed, getValue(enTranslations, failed))
    IN  /\ errorCount' = errorCount + 1
        /\ translatedCount' = translatedCount
        /\ IF script = "api"
           THEN /\ jaTranslations' = ja
                /\ trail' = before \o <<Event("error", failed)>>
                /\ exitCode' = exitCode
                /\ pc' = IF Awaited \/ pc = "await" THEN "loop" ELSE pc
           ELSE /\ jaTranslations' = placed.node
                /\ IF placed.threw
                   THEN /\ trail' = before \o <<Event("error", failed),
                                               Event("rejected", failed)>>
                        /\ exitCode' = Failure
                        /\ pc' = "done"
                   ELSE /\ trail' = before \o <<Event("error", failed),
                                               Event("placeholder", failed)>>
                        /\ exitCode' = exitCode
                        /\ pc' = IF Awaited \/ pc = "await" THEN "loop" ELSE pc

\* The api script on a string: translateWithGemini fetches.
CallGemini ==
    /\ AtKey
    /\ enText.type = "string"
    /\ script = "api"
    /\ Reachable
    /\ Issue
    /\ UNCHANGED <<script, model, apiKey, translator, enTranslations, jaTranslations,
                   jaFile, missingKeys, translatedCount, errorCount, exitCode, run>>
    /\ UNCHANGED <<pathVars, lookupVars, navVars, pageVars>>

\* The api script on a string without a backend to call: translateWithGemini
\* throws for the missing credential, translateWithOpusMT always throws, and
\* the loop's catch takes it.
ThrowBeforeCall ==
    /\ AtKey
    /\ enText.type = "string"
    /\ script = "api"
    /\ ~Reachable
    /\ Catch(jaTranslations, idx)
    /\ idx' = idx + 1
    /\ UNCHANGED <<script, model, apiKey, translator, enTranslations, jaFile,
                   missingKeys, inFlight, run>>
    /\ UNCHANGED <<pathVars, lookupVars, navVars, pageVars>>

\* The local script on a string: the model is loaded on the first call, and
\* a model that does not load ends the process.
CallLocal(loads) ==
    /\ AtKey
    /\ enText.type = "string"
    /\ script = "local"
    /\ IF translator \/ loads
       THEN /\ translator' = TRUE
            /\ Issue
            /\ exitCode' = exitCode
       ELSE /\ translator' = translator
            /\ trail' = trail \o <<Event("translate", currentKey),
                                    Event("model not loaded", currentKey)>>
            /\ exitCode' = Failure
            /\ pc' = "done"
            /\ UNCHANGED <<idx, inFlight>>
    /\ UNCHANGED <<script, model, apiKey, enTranslations, jaTranslations, jaFile,
                   missingKeys, translatedCount, errorCount, run>>
    /\ UNCHANGED <<pathVars, lookupVars, navVars, pageVars>>

\* A call returns: a translation is stored and counted, a failure or a throw
\* of setValue goes to the catch.
Return(i, ok) ==
    /\ i \in inFlight
    /\ inFlight' = inFlight \ {i}
    /\ LET stored == setValue(jaTranslations, missingKeys[i], Honyaku)
       IN  IF ok /\ ~stored.threw
           THEN /\ jaTranslations' = stored.node
                /\ translatedCount' = translatedCount + 1
                /\ trail' = Append(trail, Event("stored", missingKeys[i]))
                /\ pc' = IF Awaited \/ pc = "await" THEN "loop" ELSE pc
                /\ UNCHANGED <<errorCount, exitCode>>
           ELSE Catch(IF ok THEN stored.node ELSE jaTranslations, i)
    /\ idx' = IF Awaited THEN idx + 1 ELSE idx
    /\ UNCHANGED <<script, model, apiKey, translator, enTranslations, jaFile,
                   missingKeys, run>>
    /\ UNCHANGED <<pathVars, lookupVars, navVars, pageVars>>

\* A writer that does not wait for the loop to end.
BetweenKeys == pc = "loop"

\* The for loop has gone through missingKeys.
LoopEnded == pc = "loop" /\ idx > Len(missingKeys) /\ inFlight = {}

\* The loop is over: the target file is written and the summary printed; a
\* write that fails ends the process.
Save(ok) ==
    /\ LoopEnded
    /\ pc' = "done"
    /\ IF ok
       THEN /\ jaFile' = Stringified(jaTranslations)
            /\ trail' = trail \o <<Event("write", <<>>), Event("summary", <<>>)>>
            /\ exitCode' = Success
       ELSE /\ jaFile' = jaFile
            /\ trail' = Append(trail, Event("write failed", <<>>))
            /\ exitCode' = Failure
    /\ UNCHANGED <<script, model, apiKey, translator, enTranslations, jaTranslations,
                   missingKeys, idx, inFlight, translatedCount, errorCount, run>>
    /\ UNCHANGED <<pathVars, lookupVars, navVars, pageVars>>

SyncNext ==
    \/ Start
    \/ SkipKey
    \/ CallGemini
    \/ ThrowBeforeCall
    \/ \E loads \in BOOLEAN : CallLocal(loads)
    \/ \E i \in inFlight, ok \in BOOLEAN : Return(i, ok)
    \/ \E ok \in BOOLEAN : Save(ok)

SpecSync == SyncInit /\ [][SyncNext]_vars

\* The script is run again on the same default catalog after a run that
\* finished.
Rerun ==
    /\ run = 1
    /\ pc = "done"
    /\ exitCode = Success
    /\ run' = 2
    /\ pc' = "start"
    /\ exitCode' = Running
    /\ translator' = FALSE
    /\ jaTranslations' = Dict(<<>>)
    /\ missingKeys' = <<>>
    /\ idx' = 1
    /\ translatedCount' = 0
    /\ errorCount' = 0
    /\ trail' = <<>>
    /\ UNCHANGED <<script, model, apiKey, enTranslations, jaFile, inFlight>>
    /\ UNCHANGED <<pathVars, lookupVars, navVars, pageVars>>

ResyncNext == SyncNext \/ Rerun

SpecResync == SyncInit /\ [][ResyncNext]_vars

----------------------------------------------------------------------------
(* The provider loading its trees while the address changes *)

\* The provider as mounted on an entry path: the load effect has run for the
\* initial locale, and again for the locale of the path if that is another.
LoadInit ==
    /\ asPath \in EntryPaths
    /\ locale = getLocaleFromPathname(asPath)
    /\ fetches = <<Fetch(defaultLocale, "fallback")>>
                 \o (IF locale = defaultLocale THEN <<>>
                     ELSE <<Fetch(defaultLocale, "fallback"), Fetch(locale, "messages")>>)
    /\ messages = Obj(<<>>)
    /\ fallbackMessages = Obj(<<>>)
    /\ lastLoad = Load("cleared", Obj(<<>>))
    /\ asked = NoCall
    /\ answer = <<>>
    /\ isNavigating = FALSE
    /\ pushes = <<>>
    /\ click = NoClick
    /\ link = NoRender
    /\ hook = NoClick
    /\ notFound = NoPage
    /\ PathIdle
    /\ SyncIdle

RouteChange ==
    /\ \E p \in EntryPaths :
          /\ p # asPath
          /\ routeChanged(p)
    /\ asked' = NoCall
    /\ answer' = <<>>
    /\ UNCHANGED <<isNavigating, pushes, click, link, hook, notFound>>
    /\ UNCHANGED <<pathVars, syncVars>>

FetchSettles ==
    /\ \E i \in 1..Len(fetches), ok \in BOOLEAN : fetchSettled(i, ok)
    /\ asked' = NoCall
    /\ answer' = <<>>
    /\ UNCHANGED <<isNavigating, pushes, click, link, hook, notFound>>
    /\ UNCHANGED <<pathVars, syncVars>>

\* A component renders t(key) with the trees as they are.
Render ==
    /\ \E key \in {<<"home">>, <<"title">>, <<"home", ".", "title">>} :
          /\ asked' = key
          /\ answer' = t(key, messages, fallbackMessages)
    /\ UNCHANGED <<messages, fallbackMessages, fetches, lastLoad>>
    /\ UNCHANGED <<locale, isNavigating, asPath, pushes, click, link, hook, notFound>>
    /\ UNCHANGED <<pathVars, syncVars>>

LoadNext == RouteChange \/ FetchSettles \/ Render

SpecLoad == LoadInit /\ [][LoadNext]_vars

----------------------------------------------------------------------------
(* src/pages/404.tsx: the not-found page and its handler *)

\* The pages the static export holds.  No page is exported under a locale
\* prefix, so every locale-prefixed request is answered with the not-found
\* page.
Pages == {<<"/">>, <<"/", "react">>}

\* Whether the router finds a page for url.
PageExists(url) == url = <<"/">> \/ StripTrailingSlash(url) \in Pages

\* The addresses a request can carry and that have no page.
MissingPaths == {p \in Paths : p # <<>> /\ p[1] = "/" /\ ~PageExists(p)}

NoReplace == [url |-> <<>>, as |-> <<>>]

\* router.replace(url, as, { shallow: false })
Replace(url, as) == [url |-> url, as |-> as]

\* A replace that names no displayed address shows its target.
AddressOfTarget(path, pathWithoutLocale) == pathWithoutLocale

\* The second argument of router.replace: the address kept in the address
\* bar.
DisplayedAddress(path, pathWithoutLocale) == path

\* The not-found page as rendered for the address path, before its effect.
NotFoundPage(path) ==
    [shown |-> TRUE, phase |-> "rendered", request |-> path, replace |-> NoReplace]

\* The effect of Custom404, run after the page rendered at router.asPath.
Custom404 ==
    LET path == asPath
        pathLocale == getLocaleFromPathname(path)
        pathWithoutLocale == stripLocaleFromPathname(path)
    IN  /\ notFound.shown
        /\ notFound.phase = "rendered"
        /\ notFound' =
              IF pathLocale # defaultLocale
              THEN [notFound EXCEPT
                       !.phase = "replacing",
                       !.replace = Replace(pathWithoutLocale,
                                           DisplayedAddress(path, pathWithoutLocale))]
              ELSE [notFound EXCEPT !.phase = "idle", !.replace = NoReplace]
        /\ UNCHANGED <<locale, asPath>>

\* The replace-navigation completes.  The address becomes the one the call
\* asked to display and the provider reads the locale from it.  When the
\* target has a page, that page is rendered.  When it has none the not-found
\* page is rendered for the new navigation: its effect depends on the router
\* object of that render and runs again.
replaceLanded ==
    LET r == notFound.replace
    IN  /\ notFound.shown
        /\ notFound.phase = "replacing"
        /\ asPath' = r.as
        /\ locale' = getLocaleFromPathname(r.as)
        /\ notFound' =
              IF PageExists(r.url)
              THEN [notFound EXCEPT !.shown = FALSE, !.phase = "page"]
              ELSE [notFound EXCEPT !.phase = "rendered"]

\* A request for an address that has no page: the not-found page is rendered
\* with that address.
NotFoundInit ==
    /\ asPath \in MissingPaths
    /\ locale = getLocaleFromPathname(asPath)
    /\ notFound = NotFoundPage(asPath)
    /\ isNavigating = FALSE
    /\ pushes = <<>>
    /\ click = NoClick
    /\ fetches = <<>>
    /\ lastLoad = NoLoad
    /\ link = NoRender
    /\ hook = NoClick
    /\ PathIdle
    /\ LookupIdle
    /\ SyncIdle

HandlerRuns ==
    /\ Custom404
    /\ UNCHANGED <<isNavigating, pushes, click, fetches, lastLoad, link, hook>>
    /\ UNCHANGED <<pathVars, lookupVars, syncVars>>

ReplaceLands ==
    /\ replaceLanded
    /\ UNCHANGED <<isNavigating, pushes, click, fetches, lastLoad, link, hook>>
    /\ UNCHANGED <<pathVars, lookupVars, syncVars>>

NotFoundNext == HandlerRuns \/ ReplaceLands

SpecNotFound == NotFoundInit /\ [][NotFoundNext]_vars

\* The effect and the router are not held back: a rendered page's effect
\* runs and a navigation that was started completes.
FairNotFound == SpecNotFound /\ WF_vars(HandlerRuns) /\ WF_vars(ReplaceLands)

----------------------------------------------------------------------------
(* LocalizedLink *)

\* A first segment of two lower-case letters that is no locale code.
LinkTokens == PathTokens \cup {"js", "#", "http://", "https://"}

LinkHrefs == SeqsUpTo(LinkTokens, MaxHrefLen)

\* The tokens that are two lower-case letters.
TwoLetters == {"en", "ja", "js"}

\* href.startsWith('http://') || href.startsWith('https://') ||
\* href.startsWith('//')
isExternal(href) ==
    \/ Len(href) >= 1 /\ href[1] \in {"http://", "https://"}
    \/ Len(href) >= 2 /\ href[1] = "/" /\ href[2] = "/"

\* href.startsWith('#')
isAnchor(href) == Len(href) >= 1 /\ href[1] = "#"

\* /^\/[a-z]{2}\//.test(href)
isAlreadyLocalized(href) ==
    Len(href) >= 3 /\ href[1] = "/" /\ href[2] \in TwoLetters /\ href[3] = "/"

\* The href LocalizedLink hands to Link under the active locale loc.
LocalizedLink(href, loc) ==
    IF isExternal(href) \/ isAnchor(href) \/ isAlreadyLocalized(href)
    THEN href
    ELSE IF loc = defaultLocale THEN href ELSE addLocaleToPathname(href, loc)

Rendered(href, loc, out) == [kind |-> "link", href |-> href, locale |-> loc, rendered |-> out]

LinkInit ==
    /\ locale \in Locale
    /\ asPath = addLocaleToPathname(<<"/">>, locale)
    /\ isNavigating = FALSE
    /\ pushes = <<>>
    /\ click = NoClick
    /\ fetches = <<>>
    /\ lastLoad = NoLoad
    /\ link = NoRender
    /\ hook = NoClick
    /\ notFound = NoPage
    /\ PathIdle
    /\ LookupIdle
    /\ SyncIdle

RenderLink ==
    /\ link = NoRender
    /\ \E href \in LinkHrefs : link' = Rendered(href, locale, LocalizedLink(href, locale))
    /\ UNCHANGED <<fetches, lastLoad, hook, notFound>>
    /\ UNCHANGED <<pathVars, lookupVars, navVars, syncVars>>

LinkNext == RenderLink

SpecLink == LinkInit /\ [][LinkNext]_vars

----------------------------------------------------------------------------
(* src/hooks/useLocalizedNavigation.ts *)

\* href.startsWith('http') || href.startsWith('//') || href.startsWith('#')
hookSkips(href) ==
    \/ Len(href) >= 1 /\ href[1] \in {"http://", "https://", "#"}
    \/ Len(href) >= 2 /\ href[1] = "/" /\ href[2] = "/"

\* href.startsWith(`/${currentLocale}`)
startsWithLocale(href, currentLocale) ==
    Len(href) >= 2 /\ href[1] = "/" /\ href[2] = currentLocale

\* Whether the hook's handleClick reaches preventDefault and router.push.
hookRewrites(tg) ==
    LET currentLocale == getLocaleFromPathname(asPath)
        targetLocale == getLocaleFromPathname(tg.href)
    IN  /\ tg.anchor
        /\ tg.href # <<>>
        /\ ~hookSkips(tg.href)
        /\ currentLocale # "en"
        /\ targetLocale = "en"
        /\ ~startsWithLocale(tg.href, currentLocale)

\* handleClick of useLocalizedNavigation on a click on target tg
hookHandleClick(tg) ==
    LET currentLocale == getLocaleFromPathname(asPath)
        localizedHref == addLocaleToPathname(tg.href, currentLocale)
    IN  /\ hook' = [kind |-> "click", target |-> tg, localeWas |-> currentLocale,
                    prevented |-> hookRewrites(tg),
                    issued |-> IF hookRewrites(tg) THEN <<localizedHref>> ELSE <<>>]
        /\ pushes' = IF hookRewrites(tg)
                     THEN Append(pushes, Push(localizedHref, "hook"))
                     ELSE pushes

HookInit ==
    /\ asPath \in EntryPaths
    /\ locale = getLocaleFromPathname(asPath)
    /\ isNavigating = FALSE
    /\ pushes = <<>>
    /\ click = NoClick
    /\ fetches = <<>>
    /\ lastLoad = NoLoad
    /\ link = NoRender
    /\ hook = NoClick
    /\ notFound = NoPage
    /\ PathIdle
    /\ LookupIdle
    /\ SyncIdle

HookClick ==
    /\ hook = NoClick
    /\ \E tg \in ClickTargets : hookHandleClick(tg)
    /\ UNCHANGED <<locale, isNavigating, asPath, click>>
    /\ UNCHANGED <<fetches, lastLoad, link, notFound>>
    /\ UNCHANGED <<pathVars, lookupVars, syncVars>>

HookNext == HookClick

SpecHook == HookInit /\ [][HookNext]_vars

----------------------------------------------------------------------------
(* src/contexts/I18nContext.tsx: setLocale *)

\* The addresses router.asPath can hold.
Addresses == {p \in Paths : p # <<>> /\ p[1] = "/"}

\* What setLocale leaves in click: the locale it was called with.
Switched(newLocale) == [kind |-> "setLocale", newLocale |-> newLocale]

\* setLocale of I18nContext.tsx: the prefix is put in front of the path
\* without locale as it is, and the locale state is left to the effect on
\* router.asPath.
setLocaleByPath(newLocale) ==
    LET pathWithoutLocale == stripLocaleFromPathname(asPath)
        newPath == IF newLocale = defaultLocale
                   THEN pathWithoutLocale
                   ELSE <<"/", newLocale>> \o pathWithoutLocale
    IN  /\ pushes' = Append(pushes, Push(newPath, "setLocale"))
        /\ click' = Switched(newLocale)
        /\ UNCHANGED <<locale, isNavigating, asPath>>

SwitchInit ==
    /\ asPath \in Addresses
    /\ locale = getLocaleFromPathname(asPath)
    /\ isNavigating = FALSE
    /\ pushes = <<>>
    /\ click = NoClick
    /\ PageIdle
    /\ PathIdle
    /\ LookupIdle
    /\ SyncIdle

CallSetLocale ==
    /\ click = NoClick
    /\ \E newLocale \in Locale : setLocaleByPath(newLocale)
    /\ UNCHANGED <<pathVars, lookupVars, syncVars, pageVars>>

SwitchNext == CallSetLocale

SpecSwitch == SwitchInit /\ [][SwitchNext]_vars

----------------------------------------------------------------------------
(* Properties of the path utility, stated for SpecPath *)

\* A normalized path: "/" alone, or "/"-led non-empty segments with no
\* trailing slash.
Normalized(p) ==
    /\ Len(p) >= 1
    /\ p[1] = "/"
    /\ Len(p) > 1 => p[Len(p)] # "/"
    /\ \A i \in 1..(Len(p) - 1) : ~(p[i] = "/" /\ p[i + 1] = "/")

\* The first non-empty segment of p, stated on positions: the longest
\* slash-free run starting at the first token that is not a slash.
LeadingSegment(p) ==
    LET text == {i \in 1..Len(p) : p[i] # "/"}
    IN  IF text = {} THEN <<>>
        ELSE LET a == CHOOSE i \in text : \A j \in text : i <= j
                 runs == {j \in a..Len(p) : \A k \in a..j : p[k] # "/"}
                 b == CHOOSE j \in runs : \A k \in runs : k <= j
             IN  SubSeq(p, a, b)

EncodedLocale(p) ==
    IF LeadingSegment(p) \in {<<"en">>, <<"ja">>} THEN LeadingSegment(p)[1] ELSE "en"

\* C1: for every supported locale L and every normalized path P,
\* stripLocaleFromPathname(addLocaleToPathname(P, L)) equals
\* stripLocaleFromPathname(P).
C1_RoundTrip ==
    (Normalized(pathname) /\ applied = <<"add", "strip">>)
        => value = stripLocaleFromPathname(pathname)

\* C2: for every path P and supported locale L, adding L twice gives the
\* same path as adding it once (stated here on the normalized paths).
C2_AddIdempotent ==
    (Normalized(pathname) /\ applied = <<"add", "add">>)
        => value = addLocaleToPathname(pathname, target)

\* C3: for every path P, the locale of addLocaleToPathname(P, defaultLocale)
\* is the default locale and its first segment is no supported locale code.
\* Stated on the normalized paths and for the locale of the result: a first
\* segment "ja" is what makes that locale non-default.
C3_DefaultHasNoPrefix ==
    (Normalized(pathname) /\ target = defaultLocale /\ applied = <<"add", "getLocale">>)
        => /\ found = defaultLocale
           /\ LeadingSegment(value) # <<"ja">>

\* C4: getLocaleFromPathname(P) is the first non-empty segment of P when that
\* segment is exactly a supported locale code and the default locale
\* otherwise; a trailing slash does not change it, the empty and the root
\* path give the default, and so does a segment that only starts with a code.
C4_GetLocale ==
    applied = <<"getLocale">> =>
        /\ found = EncodedLocale(pathname)
        /\ getLocaleFromPathname(pathname \o <<"/">>) = found
        /\ getLocaleFromPathname(StripTrailingSlash(pathname)) = found
        /\ pathname \in {<<>>, <<"/">>} => found = "en"
        /\ Len(LeadingSegment(pathname)) > 1 => found = "en"

C4_Witness ==
    /\ applied = <<"getLocale">>
    /\ pathname = <<"/", "ja", "/", "react", "/">>
    /\ found = "ja"

\* C5: for every normalized path P, stripLocaleFromPathname(P) is P itself
\* when the locale of P is the default (a leading "en" stays), and otherwise
\* P without its one leading "/<locale>" segment, "/" when nothing remains.
C5_StripLocale ==
    (Normalized(pathname) /\ applied = <<"strip">>) =>
        value = IF EncodedLocale(pathname) = "en" THEN pathname
                ELSE IF Len(pathname) = 2 THEN <<"/">>
                ELSE SubSeq(pathname, 3, Len(pathname))

C5_Witness ==
    /\ applied = <<"strip">>
    /\ pathname = <<"/", "ja", "/", "ja">>
    /\ value = <<"/", "ja">>

\* C6: for every path P (a string that begins with "/") and non-default
\* locale L, addLocaleToPathname(P, L) is "/L" followed by
\* stripLocaleFromPathname(P), and exactly "/L" when the stripped path is the
\* root; for the default locale it is stripLocaleFromPathname(P).
C6_AddLocale ==
    (Len(pathname) >= 1 /\ pathname[1] = "/" /\ applied = <<"add">>) =>
        LET stripped == stripLocaleFromPathname(pathname)
        IN  value = IF target = "en" THEN stripped
                    ELSE IF stripped = <<"/">> THEN <<"/", target>>
                    ELSE <<"/", target>> \o stripped

C6_Witness ==
    /\ applied = <<"add">>
    /\ target = "ja"
    /\ \/ pathname = <<"/", "react", "/", "react">>
          /\ value = <<"/", "ja", "/", "react", "/", "react">>
       \/ pathname = <<"/">> /\ value = <<"/", "ja">>

----------------------------------------------------------------------------
(* Properties of t(), stated for SpecLookup *)

\* The dot-separated segments of a key, stated on the positions of its dots.
KeySegments(key) ==
    LET dots == {i \in 1..Len(key) : key[i] = "."}
        cuts == dots \cup {0, Len(key) + 1}
        starts == cuts \ {Len(key) + 1}
        NextCut(c) == CHOOSE d \in cuts : d > c /\ \A e \in cuts : e > c => d <= e
        Nth(n) == CHOOSE c \in starts : Cardinality({d \in starts : d < c}) = n - 1
    IN  [n \in 1..Cardinality(starts) |-> SubSeq(key, Nth(n) + 1, NextCut(Nth(n)) - 1)]

\* The value a walk along segs reaches in tree, from the last segment back:
\* the named property of the object the shorter walk reaches.
RECURSIVE Reached(_, _)
Reached(tree, segs) ==
    IF segs = <<>> THEN tree
    ELSE LET parent == Reached(tree, SubSeq(segs, 1, Len(segs) - 1))
             name == segs[Len(segs)]
         IN  IF /\ parent.type = "object"
                /\ \E n \in DOMAIN parent.fields : name = <<n>>
             THEN parent.fields[name[1]]
             ELSE Undefined

\* C7: t(K) is the string the walk along K's segments reaches in the active
\* tree; failing that, the string the same walk reaches in the default tree;
\* failing that, K itself.
C7_Lookup ==
    asked # NoCall =>
        LET inActive == Reached(messages, KeySegments(asked))
            inDefault == Reached(fallbackMessages, KeySegments(asked))
        IN  answer = IF inActive.type = "string" THEN inActive.text
                     ELSE IF inDefault.type = "string" THEN inDefault.text
                     ELSE asked

C7_Witness ==
    /\ asked = <<"home", ".", "title">>
    /\ messages = Obj(<<>>)
    /\ fallbackMessages = Obj([n \in {"home"} |-> Obj([m \in {"title"} |-> Str(<<"Hello">>)])])
    /\ answer = <<"Hello">>

----------------------------------------------------------------------------
(* Properties of the click interceptor *)

\* An href the interceptor is to ignore: external, fragment, mail or phone.
IgnoredHref(h) ==
    \/ h[1] \in {"http://", "https://", "#", "mailto:", "tel:"}
    \/ Len(h) >= 2 /\ SubSeq(h, 1, 2) = <<"/", "/">>

\* The last click activated a link (an anchor with a non-empty href).
Activated == click.kind = "click" /\ click.target.anchor /\ click.target.href # <<>>

\* C8 (SpecClick): with a non-default active locale L and no interceptor
\* navigation in flight, a click on an internal link whose encoded locale
\* differs from L is suppressed and issues exactly one programmatic
\* navigation, to addLocaleToPathname(stripLocaleFromPathname(href), L).
C8_Rewrite ==
    (/\ Activated
     /\ click.localeWas # "en"
     /\ ~click.navigatingWas
     /\ ~IgnoredHref(click.target.href)
     /\ EncodedLocale(click.target.href) # click.localeWas)
    => LET to == addLocaleToPathname(stripLocaleFromPathname(click.target.href),
                                     click.localeWas)
       IN  /\ click.prevented
           /\ click.issued = <<to>>
           /\ pushes = <<Push(to, "click")>>

C8_Witness ==
    /\ Activated
    /\ click.target.href = <<"/", "react", "/", "react">>
    /\ click.localeWas = "ja"
    /\ click.prevented
    /\ pushes = <<Push(<<"/", "ja", "/", "react", "/", "react">>, "click")>>

\* C9 (SpecNav): in every reachable state, a click on a link is left alone
\* (not suppressed, no programmatic navigation) when the active locale is
\* the default or the link's first path segment is the active locale.
C9_LeftAlone ==
    (/\ Activated
     /\ \/ click.localeWas = "en"
        \/ LeadingSegment(click.target.href) = <<click.localeWas>>)
    => ~click.prevented /\ click.issued = <<>>

\* C10 (SpecNav): in every reachable state, a click on a link whose href
\* starts with http://, https://, //, #, mailto: or tel: is ignored: not
\* suppressed, no programmatic navigation.
C10_ExternalIgnored ==
    (Activated /\ IgnoredHref(click.target.href))
    => ~click.prevented /\ click.issued = <<>>

\* The pushes in flight that the click interceptor issued.
InterceptorPushes == {i \in 1..Len(pushes) : pushes[i].by = "click"}

\* C11 (SpecNav): across any sequence of clicks, locale switches and
\* settlements, at most one navigation issued by the click interceptor is in
\* flight.
C11_SingleInFlight == Cardinality(InterceptorPushes) <= 1

\* A second click on a link that would be rewritten arrived while the first
\* rewrite was still in flight.
C11_Witness ==
    /\ click.kind = "click"
    /\ click.navigatingWas
    /\ click.localeWas = "ja"
    /\ click.target = Anchor(<<"/", "react">>)
    /\ Cardinality(InterceptorPushes) = 1

----------------------------------------------------------------------------
(* Properties of the sync scripts *)

RECURSIVE StringLeaves(_, _)
\* The key paths of a catalog's string leaves in the order of the catalog;
\* an array is a leaf.
StringLeaves(entries, prefix) ==
    IF entries = <<>> THEN <<>>
    ELSE LET e == Head(entries)
             path == IF prefix = <<>> THEN <<e.k>> ELSE prefix \o <<".", e.k>>
         IN  (IF e.v.type = "object" THEN StringLeaves(e.v.entries, path)
              ELSE IF e.v.type = "string" THEN <<path>>
              ELSE <<>>)
             \o StringLeaves(Tail(entries), prefix)

\* The target catalog a run starts from.
TargetAtStart == IF jaFile = NoFile THEN Dict(<<>>) ELSE jaFile

\* The string leaves of the default catalog that the starting target
\* catalog has no value for.
MissingLeaves ==
    LET Absent(k) == getValue(TargetAtStart, k).type = "undefined"
    IN  SelectSeq(StringLeaves(enTranslations.entries, <<>>), Absent)

\* The keys of the events of one kind, in the order of the trail.
KeysOf(ev) ==
    LET Is(e) == e.ev = ev
        hits == SelectSeq(trail, Is)
    IN  [i \in 1..Len(hits) |-> hits[i].key]

IsPrefix(s, whole) == Len(s) <= Len(whole) /\ s = SubSeq(whole, 1, Len(s))

\* The run is in its loop or past it, with the target file not yet written.
InLoop == pc \in {"loop", "await"}

LoopOver == pc = "loop" /\ idx > Len(missingKeys)

\* C12 (SpecSync): the keys a translation is attempted for are the string
\* leaves of the default catalog with no value in the target catalog, in the
\* order of the default catalog: during the loop a prefix of them, after it
\* all of them.
C12_AttemptsMissingLeaves ==
    InLoop =>
        /\ IsPrefix(KeysOf("translate"), MissingLeaves)
        /\ LoopOver => KeysOf("translate") = MissingLeaves

RECURSIVE ArrayPaths(_, _)
\* The key paths of the arrays of a catalog.
ArrayPaths(entries, prefix) ==
    IF entries = <<>> THEN {}
    ELSE LET e == Head(entries)
             path == IF prefix = <<>> THEN <<e.k>> ELSE prefix \o <<".", e.k>>
         IN  (IF e.v.type = "object" THEN ArrayPaths(e.v.entries, path)
              ELSE IF e.v.type = "array" THEN {path}
              ELSE {})
             \cup ArrayPaths(Tail(entries), prefix)

\* The key path passes through an array of the default catalog.
ThroughArray(k) ==
    \E p \in ArrayPaths(enTranslations.entries, <<>>) :
        Len(p) < Len(k) /\ SubSeq(k, 1, Len(p) + 1) = p \o <<".">>

\* C13 (SpecSync): in both scripts no backend call is made for a key path
\* through an array of the default catalog, and the target catalog in memory
\* keeps what it held at the path of every such array.
C13_ArraysExcluded ==
    /\ \A i \in 1..Len(trail) :
          trail[i].ev = "call" => ~ThroughArray(trail[i].key)
    /\ InLoop =>
          \A p \in ArrayPaths(enTranslations.entries, <<>>) :
              getValue(jaTranslations, p) = getValue(TargetAtStart, p)

\* C14 (SpecResync): a second run of a script on the same default catalog,
\* after a first run that finished, finds no string leaf missing, attempts
\* no translation and counts none, whatever the backend did in the first run.
C14_SecondRunFindsNothing ==
    (run = 2 /\ pc # "start") =>
        /\ InLoop => MissingLeaves = <<>>
        /\ KeysOf("translate") = <<>>
        /\ translatedCount = 0

RECURSIVE LeafPaths(_, _)
\* The key paths of the leaves of a catalog: its values other than objects.
LeafPaths(entries, prefix) ==
    IF entries = <<>> THEN {}
    ELSE LET e == Head(entries)
             path == IF prefix = <<>> THEN <<e.k>> ELSE prefix \o <<".", e.k>>
         IN  (IF e.v.type = "object" THEN LeafPaths(e.v.entries, path) ELSE {path})
             \cup LeafPaths(Tail(entries), prefix)

\* C15 (SpecSync): every leaf the target catalog holds when a run starts is
\* held, with the same value, by the catalog the run is about to write.
C15_DefinedKeysKept ==
    InLoop =>
        \A k \in LeafPaths(TargetAtStart.entries, <<>>) :
            Stringified(getValue(jaTranslations, k)) = getValue(TargetAtStart, k)

\* C16 (SpecSync): once the api script, run for gemini-flash without its
\* credential, has attempted a translation, it attempts no further key, does
\* not write the target file and ends with a non-zero exit code.
C16_MissingCredentialIsFatal ==
    (script = "api" /\ model = "gemini-flash" /\ ~apiKey
                    /\ KeysOf("translate") # <<>>) =>
        /\ Len(KeysOf("translate")) = 1
        /\ KeysOf("write") = <<>>
        /\ pc = "done" => exitCode = Failure

\* The missing keys the loop does not skip: those with a string in the
\* default catalog.
TranslatableKeys ==
    LET IsText(k) == getValue(enTranslations, k).type = "string"
    IN  SelectSeq(missingKeys, IsText)

\* C17 (SpecSync): a run in which the processing of a key failed, and whose
\* write of the file did not fail, ends with every translatable missing key
\* attempted, the target file written and the summary printed.
C17_FailureDoesNotAbort ==
    (pc = "done" /\ KeysOf("error") # <<>> /\ KeysOf("write failed") = <<>>) =>
        /\ KeysOf("translate") = TranslatableKeys
        /\ Len(KeysOf("write")) = 1
        /\ Len(KeysOf("summary")) = 1

\* The events of the trail that belong to the processing of a key.
KeyEvents == {i \in 1..Len(trail) : trail[i].key # <<>>}

Writes == {i \in 1..Len(trail) : trail[i].ev = "write"}

\* The file is written at most once, and a write comes after every event of
\* every missing key, with the loop at the end of missingKeys.
WriteAfterLastKey ==
    /\ Cardinality(Writes) <= 1
    /\ \A w \in Writes :
          /\ \A i \in KeyEvents : i < w
          /\ idx > Len(missingKeys)
          /\ inFlight = {}

C19_NothingMissingNothingDone ==
    (pc # "start" /\ Writes = {} /\ MissingLeaves = <<>>) =>
        /\ pc = "done"
        /\ exitCode = Success
        /\ KeysOf("call") = <<>>

\* The position of a key in missingKeys; the keys of a catalog are distinct.
PositionOf(k) == CHOOSE i \in 1..Len(missingKeys) : missingKeys[i] = k

Calls == {i \in 1..Len(trail) : trail[i].ev = "call"}

\* C20 (SpecSync): at most one backend call is in flight, the calls are
\* made in the order of missingKeys, and between two calls the earlier one
\* has returned: its translation was stored or its error counted.
C20_OneCallAtATime ==
    /\ Cardinality(inFlight) <= 1
    /\ \A p, q \in Calls :
          p < q =>
              /\ PositionOf(trail[p].key) < PositionOf(trail[q].key)
              /\ \E r \in (p + 1)..(q - 1) :
                    /\ trail[r].key = trail[p].key
                    /\ trail[r].ev \in {"stored", "error"}

\* The call for the second of two missing keys is in flight after the call
\* for the first failed.
C20_Witness ==
    /\ Len(missingKeys) >= 2
    /\ KeysOf("call") = <<missingKeys[1], missingKeys[2]>>
    /\ KeysOf("error") = <<missingKeys[1]>>
    /\ inFlight = {2}

----------------------------------------------------------------------------
(* Further properties of t(), stated for SpecLookup *)

\* C23 (SpecLookup): for every non-empty key and every pair of loaded trees
\* t returns a non-empty string.
C23_NeverBlank == (asked # NoCall /\ asked # <<>>) => answer # <<>>

----------------------------------------------------------------------------
(* Properties of the provider's loading, stated for SpecLoad *)

\* What t answers for a key from the default tree alone.
FallbackOnly(key) ==
    LET inDefault == Reached(fallbackMessages, KeySegments(key))
    IN  IF inDefault.type = "string" THEN inDefault.text ELSE key

\* C21 (SpecLoad): when the request for a non-default locale's catalog has
\* failed, the active tree is empty whatever it held before, and t answers
\* from the default tree or with the key.
C21_FailureEmptiesActiveTree ==
    lastLoad.event = "failed" =>
        /\ messages = Obj(<<>>)
        /\ asked # NoCall => answer = FallbackOnly(asked)

\* A failure replaced a loaded tree, and t('home') then gave the default
\* text.
C21_Witness ==
    /\ lastLoad = Load("failed", Catalog("ja"))
    /\ asked = <<"home">>
    /\ answer = <<"Hello">>

\* C28 (SpecLoad): once no catalog request is in flight, the active tree is
\* that of the active locale: empty for the default locale, and for another
\* locale its catalog, or empty after a failed request.
C28_ActiveTreeOfActiveLocale ==
    fetches = <<>> =>
        IF locale = defaultLocale THEN messages = Obj(<<>>)
        ELSE messages \in {Catalog(locale), Obj(<<>>)}
----------------------------------------------------------------------------
(* Properties of the not-found handler, stated for SpecNotFound *)

\* The handler has run for the page as rendered.
HandlerRan == notFound.phase \in {"replacing", "idle"}

\* C22: when the not-found handler has run for request path P, then if
\* getLocaleFromPathname(P) is not the default locale it has issued a
\* replace-navigation whose target is stripLocaleFromPathname(P) and whose
\* displayed address is P, so the locale read from the displayed address is
\* still that locale; if it is the default locale it has issued none.  Once
\* the navigation has completed the address is P and the active locale is
\* the locale of P.
C22_ReplaceKeepsAddress ==
    LET P == notFound.request
        L == getLocaleFromPathname(P)
    IN  /\ HandlerRan =>
              IF L # defaultLocale
              THEN /\ notFound.phase = "replacing"
                   /\ notFound.replace = Replace(stripLocaleFromPathname(P), P)
                   /\ getLocaleFromPathname(notFound.replace.as) = L
              ELSE /\ notFound.phase = "idle"
                   /\ notFound.replace = NoReplace
        /\ notFound.phase = "page" => asPath = P /\ locale = L

\* The handler has sent '/ja/react' to '/react' and kept the address.
C22_Witness ==
    /\ notFound.phase = "replacing"
    /\ notFound.request = <<"/", "ja", "/", "react">>
    /\ notFound.replace = Replace(<<"/", "react">>, <<"/", "ja", "/", "react">>)

\* C30: for a locale-prefixed request whose de-prefixed path has no page
\* either, the handler issues finitely many replace-navigations: from some
\* point on the not-found page stays as it is, with no navigation in flight
\* and no effect to run.
C30_SettlesOnNotFound ==
    (/\ Normalized(notFound.request)
     /\ getLocaleFromPathname(notFound.request) # defaultLocale
     /\ ~PageExists(stripLocaleFromPathname(notFound.request)))
    => <>[](notFound.phase \in {"idle", "page"})
----------------------------------------------------------------------------
(* Properties of LocalizedLink, stated for SpecLink *)

\* An href that is neither external nor a fragment.
InternalHref(h) ==
    /\ ~(Len(h) >= 1 /\ h[1] \in {"http://", "https://", "#"})
    /\ ~(Len(h) >= 2 /\ h[1] = "/" /\ h[2] = "/")

\* C24: for every internal href whose first path segment is not a supported
\* locale code, LocalizedLink renders addLocaleToPathname(href, L) when the
\* active locale L is not the default one and the href unchanged when it
\* is, whatever the first segment is otherwise (another two-letter word
\* included).
C24_LinkPrefixed ==
    (/\ link.kind = "link"
     /\ InternalHref(link.href)
     /\ ~IsLocaleSegment(LeadingSegment(link.href)))
    => link.rendered = IF link.locale # defaultLocale
                       THEN addLocaleToPathname(link.href, link.locale)
                       ELSE link.href
----------------------------------------------------------------------------
(* The in-flight guard after a navigation settled, stated for SpecNav *)

\* The click was on a link the interceptor rewrites under the locale it met.
Qualifies ==
    /\ Activated
    /\ ~IgnoredHref(click.target.href)
    /\ click.localeWas # defaultLocale
    /\ getLocaleFromPathname(click.target.href) # click.localeWas

\* C25: once a navigation issued by the interceptor has settled, by success
\* or by failure, the guard is clear; the guard is never set with no
\* interceptor navigation in flight; and a qualifying click is left
\* unrewritten only while an interceptor navigation is still in flight, so
\* the first one after the settlement is rewritten again.
C25_GuardCleared ==
    /\ (click.kind = "settled" /\ click.by = "click") => ~isNavigating
    /\ isNavigating => InterceptorPushes # {}
    /\ (Qualifies /\ click.issued = <<>>) => InterceptorPushes # {}

\* An interceptor navigation has failed and the guard is clear.
C25_Witness ==
    /\ click = Settled("click", FALSE)
    /\ ~isNavigating
    /\ locale = "ja"
----------------------------------------------------------------------------
(* A failed backend call and the written tree, stated for SpecSync *)

\* The keys whose backend call was made and ended in the loop's catch.
FailedKeys ==
    {trail[i].key : i \in {j \in 1..Len(trail) : trail[j].ev = "call"}}
    \cap {trail[i].key : i \in {j \in 1..Len(trail) : trail[j].ev = "error"}}

\* C26: after a run that wrote the target file and in which the backend call
\* for key K failed, K is counted as errored and not as translated; in the
\* tree written by the api script K is undefined, in the tree written by the
\* local script K holds the string of the default tree.
C26_FailedKeyInWrittenTree ==
    (pc = "done" /\ Writes # {}) =>
        /\ errorCount = Len(KeysOf("error"))
        /\ translatedCount = Len(KeysOf("stored"))
        /\ \A K \in FailedKeys :
              /\ \A i \in 1..Len(trail) : trail[i].key = K => trail[i].ev # "stored"
              /\ IF script = "api"
                 THEN getValue(jaFile, K).type = "undefined"
                 ELSE getValue(jaFile, K) = getValue(enTranslations, K)
----------------------------------------------------------------------------
(* Properties of useLocalizedNavigation, stated for SpecHook *)

\* C27: under a current locale L that is not the default one, a click on an
\* internal link whose first path segment is not a supported locale code is
\* suppressed and navigates to addLocaleToPathname(href, L), also when the
\* href begins with the characters of '/L' without having L as its first
\* segment.
C27_HookRewrites ==
    (/\ hook.kind = "click"
     /\ hook.target.anchor
     /\ hook.target.href # <<>>
     /\ ~IgnoredHref(hook.target.href)
     /\ hook.localeWas # defaultLocale
     /\ ~IsLocaleSegment(LeadingSegment(hook.target.href)))
    => /\ hook.prevented
       /\ hook.issued = <<addLocaleToPathname(hook.target.href, hook.localeWas)>>
----------------------------------------------------------------------------
(* Properties of setLocale, stated for SpecSwitch *)

\* C29: setLocale(L) called on the current path C issues exactly one
\* navigation; for every normalized C, the root included, its target is
\* addLocaleToPathname(C, L) and is normalized.
C29_SwitchTarget ==
    click.kind = "setLocale" =>
        /\ Len(pushes) = 1
        /\ Normalized(asPath) =>
              /\ pushes[1].url = addLocaleToPathname(asPath, click.newLocale)
              /\ Normalized(pushes[1].url)

============================================================================
